---- MODULE Spec2Model ----
(***************************************************************************)
(* scraper_browserstack.py.  One worker: run_test_process constructs an    *)
(* ElPaisScraperBrowserStack (setup_driver), calls scrape_articles and     *)
(* then analyze_data.  Strings are sequences of one-character strings, so  *)
(* that prefix tests, substring tests, strip() and concatenation are       *)
(* computed the way the Python code computes them.                         *)
(***************************************************************************)
EXTENDS Integers, Sequences, FiniteSets, TLC

VARIABLES
    pc,               \* the worker's position in run_test_process / scrape_articles
    scraping,         \* call status of scrape_articles: not_called, running, returned, raised
    driver,           \* self.driver: "None", "open" (session acquired), "quit" (released)
    quits,            \* number of driver.quit() calls issued
    sel,              \* index of the selector the running cascade is at
    article_elements, \* result of the container lookup (element handles)
    first_enough,     \* history: first selector whose lookup gave >= 5 elements (0: none)
    enough_len,       \* history: how many elements that lookup gave
    last_tried,       \* history: last selector a lookup was issued for (0: none)
    max_len,          \* history: longest lookup result obtained so far
    elem_i,           \* 1-based position of the container loop
    article_links,    \* the dicts collected from the listing page (mutated while scraping)
    seen_urls,        \* the seen-set of link collection
    probe,            \* history: <<href, title>> read from the container just examined
    art_i,            \* 1-based position of the article loop
    nav_failed,       \* history: index of the article whose navigation raised (0: none)
    final_title_es,   \* local of the title cascade
    full_content_es,  \* local of the body cascade
    img_url,          \* local of the image cascade
    img_accepted,     \* history: an image strategy accepted a URL as usable on this page
    downloads,        \* history: the URLs handed to _download_image, with the article index
    scraped_articles, \* self.scraped_articles
    main_pc,          \* the outer driver's position: spawn, join, complete
    started,          \* number of worker processes started by the outer driver
    joined,           \* number of worker processes the outer driver has joined
    wpc,              \* per worker process: its position in run_test_process
    wout,             \* per worker process: how run_test_process ended (none, ok, failed)
    wres              \* per worker process: its scraper's scraped_articles

vars == <<pc, scraping, driver, quits, sel, article_elements, first_enough, enough_len,
          last_tried, max_len, elem_i, article_links, seen_urls, probe, art_i, nav_failed,
          final_title_es, full_content_es, img_url, img_accepted, downloads,
          scraped_articles, main_pc, started, joined, wpc, wout, wres>>

---------------------------------------------------------------------------
(* Bounds of the checked instances.                                        *)

\* most elements one container lookup returns
MaxElems == 6
\* elements the listing page holds in the article-page instance
PageLinks == 1
\* elements the listing page holds in the link-validation instance
FewElems == 2
\* capability sets of PARALLEL_CAPS, one worker process each
NumWorkers == 2

---------------------------------------------------------------------------
(* Program constants.                                                      *)

\* len(article_elements) >= 5
MinCount == 5
\* len(article_links) >= 5
TargetCount == 5
\* len(title) > 10
MinTitleLen == 10
\* len(full_content_es) > 50
MinContentLen == 50
\* len(file_extension) > 4
MaxExtLen == 4

BASE_URL == <<"h", "t", "t", "p", "s", ":", "/", "/", "e", "l", "p", "a", "i", "s", ".", "c", "o", "m">>
IMAGES_DIR == <<"s", "c", "r", "a", "p", "e", "d", "_", "i", "m", "a", "g", "e", "s">>
SECTION == <<"/", "o", "p", "i", "n", "i", "o", "n", "/">>
CONTENT_NOT_SCRAPED == <<"C", "O", "N", "T", "E", "N", "T", " ", "N", "O", "T", " ", "S", "C", "R", "A", "P", "E", "D">>
NO_IMAGE_URL == <<"N", "o", " ", "i", "m", "a", "g", "e", " ", "U", "R", "L", " ", "f", "o", "u", "n", "d">>
DOWNLOAD_FAILED == <<"D", "o", "w", "n", "l", "o", "a", "d", " ", "f", "a", "i", "l", "e", "d", ".">>
HTTP == <<"h", "t", "t", "p">>
JPG == <<"j", "p", "g">>

\* article_selectors, title_selectors (listing), title_selectors (page),
\* content_selectors, img_selectors: only their number and order matter
ArticleSelectors == <<"article", ".c_a", "[data-dtm-region]", ".articulo", ".story", "h2 a">>
LinkTitleSelectors == <<"h2", "h3", ".c_t", "[data-dtm-region] a", "a">>
TitleSelectors == <<"h1", "header h1", ".a_t", ".article-header h1", "[data-dtm-region=articulo_titulo]">>
ContentSelectors == <<"article[data-dtm-region]", ".article_body", ".a_c", "article", ".articulo-cuerpo">>
ImgSelectors == <<"article img", "figure img", ".a_m img", "[data-dtm-region] img", "img">>

\* Python's None, and the outcome of a find_element that raises
None == <<"None">>
NotFound == <<"NoSuchElement">>

---------------------------------------------------------------------------
(* String helpers, as the Python built-ins compute them.                   *)

\* bool(s) for an optional string
Truthy(s) == s # None /\ s # <<>>

\* s.startswith(p)
StartsWith(s, p) == Len(s) >= Len(p) /\ SubSeq(s, 1, Len(p)) = p

\* p in s
Contains(s, p) == \E k \in 0..(Len(s) - Len(p)) : SubSeq(s, k + 1, k + Len(p)) = p

IsSpace(c) == c \in {" ", "\t", "\n"}

\* s.strip()
Strip(s) ==
    LET keep == {k \in 1..Len(s) : ~IsSpace(s[k])}
        lo == CHOOSE k \in keep : \A j \in keep : k <= j
        hi == CHOOSE k \in keep : \A j \in keep : k >= j
    IN  IF keep = {} THEN <<>> ELSE SubSeq(s, lo, hi)

\* s.split(c)[-1]
AfterLast(s, c) ==
    LET at == {k \in 1..Len(s) : s[k] = c}
        hi == CHOOSE k \in at : \A j \in at : k >= j
    IN  IF at = {} THEN s ELSE SubSeq(s, hi + 1, Len(s))

\* s.split(c)[0]
BeforeFirst(s, c) ==
    LET at == {k \in 1..Len(s) : s[k] = c}
        lo == CHOOSE k \in at : \A j \in at : k <= j
    IN  IF at = {} THEN s ELSE SubSeq(s, 1, lo - 1)

Alnum ==
    {"a", "b", "c", "d", "e", "f", "g", "h", "i", "j", "k", "l", "m", "n", "o", "p", "q",
     "r", "s", "t", "u", "v", "w", "x", "y", "z",
     "A", "B", "C", "D", "E", "F", "G", "H", "I", "J", "K", "L", "M", "N", "O", "P", "Q",
     "R", "S", "T", "U", "V", "W", "X", "Y", "Z",
     "0", "1", "2", "3", "4", "5", "6", "7", "8", "9"}

\* re.sub(r'[^a-zA-Z0-9]', '_', s)
Sanitize(s) == [k \in 1..Len(s) |-> IF s[k] \in Alnum THEN s[k] ELSE "_"]

\* str(n) for the one-digit article indexes
Str(n) == <<(<<"0", "1", "2", "3", "4", "5", "6", "7", "8", "9">>)[n + 1]>>

\* dict assignment d[k] = v
Put(d, k, v) == [x \in (DOMAIN d) \cup {k} |-> IF x = k THEN v ELSE d[x]]

---------------------------------------------------------------------------
(* The pure parts of scrape_articles and _download_image.                  *)

\* find_elements returned n handles for selector k
Handles(k, n) == [i \in 1..n |-> <<k, i>>]

\* article_elements after one lookup: a NoSuchElementException keeps the old value
ResolveLookup(elems, k, r) == IF r[1] = "found" THEN Handles(k, r[2]) ELSE elems

\* faulty variant: the loop is left only above the minimum
ResolveBreaks_Strict(r) == r[1] = "found" /\ r[2] > MinCount

\* if len(article_elements) >= 5: break
ResolveBreaks(r) == r[1] = "found" /\ r[2] >= MinCount

\* the listing-page title cascade: first non-empty stripped text, else the last value assigned
RECURSIVE FirstTitleFrom(_, _, _)
FirstTitleFrom(outs, k, title) ==
    IF k > Len(outs) THEN title
    ELSE IF outs[k] = NotFound THEN FirstTitleFrom(outs, k + 1, title)
    ELSE IF Truthy(Strip(outs[k])) THEN Strip(outs[k])
    ELSE FirstTitleFrom(outs, k + 1, Strip(outs[k]))

FirstTitle(outs) == FirstTitleFrom(outs, 1, None)

\* if url and title and ('//' in url or url.startswith('/')) and len(title) > 10
ValidLink(url, title) ==
    /\ Truthy(url)
    /\ Truthy(title)
    /\ (Contains(url, <<"/", "/">>) \/ StartsWith(url, <<"/">>))
    /\ Len(title) > MinTitleLen

\* if not url.startswith('http'): url = BASE_URL + url if url.startswith('/') else BASE_URL + '/' + url
NormalizeUrl(url) ==
    IF StartsWith(url, HTTP) THEN url
    ELSE IF StartsWith(url, <<"/">>) THEN BASE_URL \o url
    ELSE BASE_URL \o <<"/">> \o url

\* faulty variant: the seen-set is keyed by the href as read, before normalization
SeenKey_Raw(href) == href

\* the value the seen-set is asked about and extended with: the normalized URL
SeenKey(href) == NormalizeUrl(href)

\* if url not in seen_urls and '/opinion/' in url
Accepts(seen, href) == SeenKey(href) \notin seen /\ Contains(NormalizeUrl(href), SECTION)

\* one container of the loop: the new article_links and seen_urls
CollectOne(links, seen, href, title) ==
    IF ValidLink(href, title) /\ Accepts(seen, href)
    THEN [links |-> Append(links, [url |-> NormalizeUrl(href), title_es |-> title]),
          seen |-> seen \cup {SeenKey(href)}]
    ELSE [links |-> links, seen |-> seen]

\* the container loop ends: elements exhausted, or len(article_links) >= 5
LoopEnds(links, elems, i) == i > Len(elems) \/ Len(links) >= TargetCount

\* if final_title_es: break
TitleBreaks(t) == Truthy(t)

\* if full_content_es and len(full_content_es) > 50: break
ContentBreaks(t) == Truthy(t) /\ Len(t) > MinContentLen

\* article['content_es'] = full_content_es if full_content_es else "CONTENT NOT SCRAPED"
ContentField(t) == IF Truthy(t) THEN t ELSE CONTENT_NOT_SCRAPED

\* img_element.get_attribute('src') or img_element.get_attribute('data-src')
AttrOr(a, b) == IF Truthy(a) THEN a ELSE b

\* if img_url and ('http' in img_url or img_url.startswith('/')): break
ImgUsable(u) == Truthy(u) /\ (Contains(u, HTTP) \/ StartsWith(u, <<"/">>))

\* if not img_url.startswith('http'): img_url = BASE_URL + img_url if ... else BASE_URL + '/' + img_url
NormalizeImgUrl(u) ==
    IF StartsWith(u, HTTP) THEN u
    ELSE IF StartsWith(u, <<"/">>) THEN BASE_URL \o u
    ELSE BASE_URL \o <<"/">> \o u

\* file_extension = url.split('.')[-1].split('?')[0], 'jpg' when empty or longer than 4
FileExtension(url) ==
    LET ext == BeforeFirst(AfterLast(url, "."), "?")
    IN  IF ext = <<>> \/ Len(ext) > MaxExtLen THEN JPG ELSE ext

\* os.path.join(IMAGES_DIR, f"article_{index}_{safe_session_name}.{file_extension}")
FileName(url, index, session) ==
    IMAGES_DIR \o <<"/">> \o <<"a", "r", "t", "i", "c", "l", "e", "_">> \o Str(index)
        \o <<"_">> \o Sanitize(session) \o <<".">> \o FileExtension(url)

\* _download_image: the file name, or "Download failed." when anything in it raises
DownloadImage(url, index, session, ok) ==
    IF ok THEN FileName(url, index, session) ELSE DOWNLOAD_FAILED

\* faulty variant: without an image URL the field is left unset
ImagePath_Unset(art, u, index, session, ok) ==
    IF Truthy(u) THEN Put(art, "image_path", DownloadImage(NormalizeImgUrl(u), index, session, ok))
    ELSE art

\* if img_url: ... article['image_path'] = self._download_image(...) else "No image URL found"
ImagePath(art, u, index, session, ok) ==
    IF Truthy(u) THEN Put(art, "image_path", DownloadImage(NormalizeImgUrl(u), index, session, ok))
    ELSE Put(art, "image_path", NO_IMAGE_URL)

\* faulty variant: the article is put in front of the result
AppendArticle_Front(done, art) == <<art>> \o done

\* self.scraped_articles.append(article)
AppendArticle(done, art) == Append(done, art)

---------------------------------------------------------------------------
(* What the remote browser, the file system and the network may answer.    *)
(* An instance E fixes the sets the answers are drawn from.                *)

\* answers of find_elements: n handles, NoSuchElementException, another WebDriverException
Lookups(counts) == {<<"found", n>> : n \in counts} \cup {<<"nse">>, <<"error">>}

IdChar(i) == (<<"a", "b", "c", "d", "e", "f", "g", "h", "i", "j">>)[i]

\* the href a container exposes, by shape, for the article named c
Href(form, c) ==
    CASE form = "none" -> None
      [] form = "empty" -> <<>>
      [] form = "abs" -> BASE_URL \o SECTION \o <<c>>
      [] form = "root" -> SECTION \o <<c>>
      [] form = "rel" -> Tail(SECTION) \o <<c>>
      [] form = "slashes" -> <<"x", "/">> \o SECTION \o <<c>>
      [] form = "abs_other" -> BASE_URL \o <<"/", "d", "e", "p", "/">> \o <<c>>
      [] form = "root_other" -> <<"/", "d", "e", "p", "/">> \o <<c>>

\* container i links to article i or, when the instance has repeats, to article 1
HrefsAt(E, i) == {Href(f, IdChar(j)) : f \in E.forms, j \in (IF E.repeats THEN {1, i} ELSE {i})}

T10 == <<"O", "p", "i", "n", "i", "o", "n", " ", "1", "0">>
T11 == <<"E", "d", "i", "t", "o", "r", "i", "a", "l", " ", "1">>
Padded(t) == <<" ">> \o t \o <<" ", "\n">>
PAGE_TITLE == <<"E", "d", "i", "t", "o", "r", "i", "a", "l", " ", "1", ":", " ", "t", "e", "x", "t", "o">>
Text(n) == [k \in 1..n |-> "x"]
IMG_ROOT == <<"/", "i", "m", "g", "/", "f", "o", "o", ".", "j", "p", "g">>
IMG_ABS == <<"h", "t", "t", "p", "s", ":", "/", "/", "e", ".", "c", "/", "i", ".", "p", "n", "g", "?", "w", "=", "9">>
IMG_DATA == <<"d", "a", "t", "a", ":", "a">>
IMG_LONGEXT == <<"/", "i", "m", "g", "/", "a", ".", "i", "m", "a", "g", "e">>
SESSION_NAME == <<"W", "i", "n", "-", "1">>

\* answers of the listing title selectors: the first k fail the same way, the rest give t
TitleAnswers(k, fail, t) == [j \in 1..Len(LinkTitleSelectors) |-> IF j <= k THEN fail ELSE t]

PlainTitles == {TitleAnswers(0, NotFound, T11)}

RichTitles ==
    {TitleAnswers(k, f, t) : k \in {0, 2, Len(LinkTitleSelectors)}, f \in {NotFound, <<" ">>},
                             t \in {T10, T11, Padded(T10), Padded(T11)}}

AllForms == {"none", "empty", "abs", "root", "rel", "slashes", "abs_other", "root_other"}

PlainPage ==
    [pageTitles |-> {NotFound}, bodies |-> {NotFound}, imgs |-> {NotFound}, downloadOk |-> {TRUE}]

\* the session instance: every lookup outcome, well-formed links, pages with or without a body
SessionEnv ==
    [lookups |-> Lookups({0, MinCount - 1, MinCount, MaxElems}), forms |-> {"root"},
     repeats |-> FALSE, linkTitles |-> PlainTitles, pageTitles |-> {NotFound},
     bodies |-> {NotFound, Text(MinContentLen + 1)}, imgs |-> {NotFound}, downloadOk |-> {TRUE}]

\* the link-collection instance: more containers than the target, repeated links
LinksEnv ==
    [lookups |-> Lookups({MaxElems}), forms |-> {"none", "abs", "root"}, repeats |-> TRUE,
     linkTitles |-> PlainTitles] @@ PlainPage

\* the link-validation instance: few containers, every href shape and title
ValidateEnv ==
    [lookups |-> Lookups({FewElems}), forms |-> AllForms, repeats |-> TRUE,
     linkTitles |-> RichTitles] @@ PlainPage

\* the article-page instance: few links, every answer of the page's selectors
PageEnv ==
    [lookups |-> Lookups({PageLinks}), forms |-> {"root"}, repeats |-> FALSE,
     linkTitles |-> PlainTitles,
     pageTitles |-> {NotFound, <<>>, PAGE_TITLE},
     bodies |-> {NotFound, <<>>, Text(MinContentLen), Text(MinContentLen + 1)},
     imgs |-> {NotFound, <<None, None>>, <<IMG_ROOT, None>>, <<None, IMG_ABS>>,
               <<IMG_DATA, None>>, <<<<>>, IMG_LONGEXT>>},
     downloadOk |-> BOOLEAN]

---------------------------------------------------------------------------
(* The worker.                                                             *)

resolverHist == <<first_enough, enough_len, last_tried, max_len>>
listing == <<sel, article_elements, elem_i, seen_urls, probe>>
pageLocals == <<final_title_es, full_content_es, img_url, img_accepted>>
results == <<article_links, art_i, nav_failed, downloads, scraped_articles>>
processes == <<main_pc, started, joined, wpc, wout, wres>>
worker == <<pc, scraping, driver, quits, resolverHist, listing, pageLocals, results>>

Workers == 1..NumWorkers

Init ==
    /\ pc = "construct"
    /\ scraping = "not_called"
    /\ driver = "None"
    /\ quits = 0
    /\ sel = 0
    /\ article_elements = <<>>
    /\ first_enough = 0
    /\ enough_len = 0
    /\ last_tried = 0
    /\ max_len = 0
    /\ elem_i = 0
    /\ article_links = <<>>
    /\ seen_urls = {}
    /\ probe = None
    /\ art_i = 0
    /\ nav_failed = 0
    /\ final_title_es = None
    /\ full_content_es = None
    /\ img_url = None
    /\ img_accepted = FALSE
    /\ downloads = <<>>
    /\ scraped_articles = <<>>
    /\ main_pc = "spawn"
    /\ started = 0
    /\ joined = 0
    /\ wpc = [w \in Workers |-> "unstarted"]
    /\ wout = [w \in Workers |-> "none"]
    /\ wres = [w \in Workers |-> <<>>]

\* __init__ / setup_driver: webdriver.Remote may raise (no session), and so may
\* set_page_load_timeout after the session exists; both are re-raised to run_test_process
SetupDriver ==
    /\ pc = "construct"
    /\ UNCHANGED processes
    /\ \E r \in {"ok", "no_session", "timeout_call_raises"} :
         /\ driver' = IF r = "no_session" THEN "None" ELSE "open"
         /\ pc' = IF r = "ok" THEN "makedirs" ELSE "done"
    /\ UNCHANGED <<scraping, quits, resolverHist, listing, pageLocals, results>>

\* scrape_articles is entered: os.path.exists / os.makedirs, before the try block
MakeImagesDir ==
    /\ pc = "makedirs"
    /\ UNCHANGED processes
    /\ \E exists \in BOOLEAN, created \in BOOLEAN :
         IF exists \/ created
         THEN pc' = "home" /\ scraping' = "running"
         ELSE pc' = "done" /\ scraping' = "raised"
    /\ UNCHANGED <<driver, quits, resolverHist, listing, pageLocals, results>>

\* self.driver.get(BASE_URL)
OpenHome ==
    /\ pc = "home"
    /\ UNCHANGED processes
    /\ \E ok \in BOOLEAN : pc' = IF ok THEN "consent" ELSE "finally"
    /\ UNCHANGED <<scraping, driver, quits, resolverHist, listing, pageLocals, results>>

\* the cookie-banner loop: every failure in it is swallowed
DismissConsent ==
    /\ pc = "consent"
    /\ UNCHANGED processes
    /\ pc' = "section"
    /\ UNCHANGED <<scraping, driver, quits, resolverHist, listing, pageLocals, results>>

\* self.driver.get(BASE_URL + "/opinion/"), then article_elements = []
OpenSection ==
    /\ pc = "section"
    /\ UNCHANGED processes
    /\ \E ok \in BOOLEAN :
         IF ok
         THEN pc' = "resolve" /\ sel' = 1 /\ article_elements' = <<>>
         ELSE pc' = "finally" /\ UNCHANGED <<sel, article_elements>>
    /\ UNCHANGED <<scraping, driver, quits, resolverHist, elem_i, seen_urls, probe,
                   pageLocals, results>>

\* one round of "for selector in article_selectors"; leaving the loop sets up link collection
ResolveStep(E) ==
    /\ pc = "resolve"
    /\ UNCHANGED processes
    /\ \E r \in E.lookups :
         /\ last_tried' = sel
         /\ max_len' = IF r[1] = "found" /\ r[2] > max_len THEN r[2] ELSE max_len
         /\ IF first_enough = 0 /\ r[1] = "found" /\ r[2] >= MinCount
            THEN first_enough' = sel /\ enough_len' = r[2]
            ELSE UNCHANGED <<first_enough, enough_len>>
         /\ IF r[1] = "error"
            THEN pc' = "finally" /\ UNCHANGED <<sel, article_elements, elem_i>>
            ELSE /\ article_elements' = ResolveLookup(article_elements, sel, r)
                 /\ IF ResolveBreaks(r) \/ sel = Len(ArticleSelectors)
                    THEN pc' = "collect" /\ elem_i' = 1 /\ UNCHANGED sel
                    ELSE pc' = "resolve" /\ sel' = sel + 1 /\ UNCHANGED elem_i
    /\ UNCHANGED <<scraping, driver, quits, seen_urls, probe, pageLocals, results>>

\* one container of "for i, element in enumerate(article_elements)": reading it raises
\* (the container is skipped), or it exposes an href and answers to the title selectors
CollectStep(E) ==
    /\ pc = "collect"
    /\ UNCHANGED processes
    /\ ~LoopEnds(article_links, article_elements, elem_i)
    /\ elem_i' = elem_i + 1
    /\ \/ /\ probe' = None
          /\ UNCHANGED <<article_links, seen_urls>>
       \/ \E href \in HrefsAt(E, elem_i), outs \in E.linkTitles :
            LET title == FirstTitle(outs)
                new == CollectOne(article_links, seen_urls, href, title)
            IN  /\ probe' = <<href, title>>
                /\ article_links' = new.links
                /\ seen_urls' = new.seen
    /\ UNCHANGED <<pc, scraping, driver, quits, resolverHist, sel, article_elements,
                   pageLocals, art_i, nav_failed, downloads, scraped_articles>>

\* the loop is left; "if not article_links: return", else the article loop starts
CollectDone ==
    /\ pc = "collect"
    /\ UNCHANGED processes
    /\ LoopEnds(article_links, article_elements, elem_i)
    /\ probe' = None
    /\ IF article_links = <<>>
       THEN pc' = "finally" /\ UNCHANGED art_i
       ELSE pc' = "navigate" /\ art_i' = 1
    /\ UNCHANGED <<scraping, driver, quits, resolverHist, sel, article_elements, elem_i,
                   seen_urls, pageLocals, article_links, nav_failed, downloads,
                   scraped_articles>>

\* self.driver.get(article['url']), then final_title_es = None
NavigateArticle ==
    /\ pc = "navigate"
    /\ UNCHANGED processes
    /\ \E ok \in BOOLEAN :
         IF ok
         THEN /\ pc' = "title" /\ sel' = 1
              /\ final_title_es' = None /\ img_accepted' = FALSE
              /\ UNCHANGED nav_failed
         ELSE /\ pc' = "finally" /\ nav_failed' = art_i
              /\ UNCHANGED <<sel, final_title_es, img_accepted>>
    /\ UNCHANGED <<scraping, driver, quits, resolverHist, article_elements, elem_i, seen_urls,
                   probe, full_content_es, img_url, article_links, art_i, downloads,
                   scraped_articles>>

\* one round of the page's title cascade; leaving it stores the title found, if any
TitleStep(E) ==
    /\ pc = "title"
    /\ UNCHANGED processes
    /\ \E o \in E.pageTitles :
         LET t == IF o = NotFound THEN final_title_es ELSE o
         IN  /\ final_title_es' = t
             /\ IF (o # NotFound /\ TitleBreaks(t)) \/ sel = Len(TitleSelectors)
                THEN /\ pc' = "content" /\ sel' = 1 /\ full_content_es' = None
                     /\ article_links' =
                          IF Truthy(t)
                          THEN [article_links EXCEPT ![art_i] = Put(@, "title_es", t)]
                          ELSE article_links
                ELSE /\ sel' = sel + 1
                     /\ UNCHANGED <<pc, full_content_es, article_links>>
    /\ UNCHANGED <<scraping, driver, quits, resolverHist, article_elements, elem_i, seen_urls,
                   probe, img_url, img_accepted, art_i, nav_failed, downloads,
                   scraped_articles>>

\* one round of the body cascade; leaving it sets article['content_es']
ContentStep(E) ==
    /\ pc = "content"
    /\ UNCHANGED processes
    /\ \E o \in E.bodies :
         LET t == IF o = NotFound THEN full_content_es ELSE o
         IN  /\ full_content_es' = t
             /\ IF (o # NotFound /\ ContentBreaks(t)) \/ sel = Len(ContentSelectors)
                THEN /\ pc' = "image" /\ sel' = 1 /\ img_url' = None
                     /\ article_links' =
                          [article_links EXCEPT ![art_i] = Put(@, "content_es", ContentField(t))]
                ELSE /\ sel' = sel + 1
                     /\ UNCHANGED <<pc, img_url, article_links>>
    /\ UNCHANGED <<scraping, driver, quits, resolverHist, article_elements, elem_i, seen_urls,
                   probe, final_title_es, img_accepted, art_i, nav_failed, downloads,
                   scraped_articles>>

\* one round of the image cascade; leaving it downloads the image, or sets the sentinel
ImageStep(E) ==
    /\ pc = "image"
    /\ UNCHANGED processes
    /\ \E o \in E.imgs, ok \in E.downloadOk :
         LET u == IF o = NotFound THEN img_url ELSE AttrOr(o[1], o[2])
             brk == o # NotFound /\ ImgUsable(u)
         IN  /\ img_accepted' = brk
             /\ IF brk \/ sel = Len(ImgSelectors)
                THEN /\ pc' = "append"
                     /\ img_url' = IF Truthy(u) THEN NormalizeImgUrl(u) ELSE u
                     /\ downloads' =
                          IF Truthy(u) THEN Append(downloads, <<art_i, NormalizeImgUrl(u)>>)
                          ELSE downloads
                     /\ article_links' =
                          [article_links EXCEPT ![art_i] = ImagePath(@, u, art_i, SESSION_NAME, ok)]
                     /\ UNCHANGED sel
                ELSE /\ sel' = sel + 1 /\ img_url' = u
                     /\ UNCHANGED <<pc, downloads, article_links>>
    /\ UNCHANGED <<scraping, driver, quits, resolverHist, article_elements, elem_i, seen_urls,
                   probe, final_title_es, full_content_es, art_i, nav_failed, scraped_articles>>

\* self.scraped_articles.append(article), then the next article or the end of the loop
AppendStep ==
    /\ pc = "append"
    /\ UNCHANGED processes
    /\ scraped_articles' = AppendArticle(scraped_articles, article_links[art_i])
    /\ IF art_i < Len(article_links)
       THEN pc' = "navigate" /\ art_i' = art_i + 1
       ELSE pc' = "finally" /\ UNCHANGED art_i
    /\ UNCHANGED <<scraping, driver, quits, resolverHist, listing, pageLocals, article_links,
                   nav_failed, downloads>>

\* finally: if self.driver: self.driver.quit(); quit itself may raise
QuitDriver ==
    /\ pc = "finally"
    /\ UNCHANGED processes
    /\ IF driver # "None"
       THEN /\ driver' = "quit" /\ quits' = quits + 1
            /\ \E ok \in BOOLEAN :
                 IF ok THEN pc' = "analyze" /\ scraping' = "returned"
                 ELSE pc' = "done" /\ scraping' = "raised"
       ELSE /\ pc' = "analyze" /\ scraping' = "returned"
            /\ UNCHANGED <<driver, quits>>
    /\ UNCHANGED <<resolverHist, listing, pageLocals, results>>

\* analyze_data(scraper.scraped_articles, session_name): reads the result, may raise
AnalyzeData ==
    /\ pc = "analyze"
    /\ UNCHANGED processes
    /\ pc' = "done"
    /\ UNCHANGED <<scraping, driver, quits, resolverHist, listing, pageLocals, results>>

NextOver(E) ==
    \/ SetupDriver
    \/ MakeImagesDir
    \/ OpenHome
    \/ DismissConsent
    \/ OpenSection
    \/ ResolveStep(E)
    \/ CollectStep(E)
    \/ CollectDone
    \/ NavigateArticle
    \/ TitleStep(E)
    \/ ContentStep(E)
    \/ ImageStep(E)
    \/ AppendStep
    \/ QuitDriver
    \/ AnalyzeData

Next == NextOver(SessionEnv)
NextLinks == NextOver(LinksEnv)
NextValidate == NextOver(ValidateEnv)
NextPage == NextOver(PageEnv)

Spec == Init /\ [][Next]_vars
SpecLinks == Init /\ [][NextLinks]_vars
SpecValidate == Init /\ [][NextValidate]_vars
SpecPage == Init /\ [][NextPage]_vars

---------------------------------------------------------------------------
(* The outer driver and its worker processes.  Each worker is a separate   *)
(* process running run_test_process with its own scraper object; here one  *)
(* worker step is one call of run_test_process's body.                     *)

\* the articles worker w holds after scraping n of them
ArticlesOf(w, n) == [j \in 1..n |-> <<w, j>>]

\* scraper = ElPaisScraperBrowserStack(caps) is local to the process: only w's entry changes
StoreResult(res, w, arts) == [res EXCEPT ![w] = arts]

\* faulty variant: join returns without waiting for the process
JoinReady_NoWait(w) == TRUE

\* p.join() returns once process w has ended
JoinReady(w) == wpc[w] = "terminated"

\* for caps in PARALLEL_CAPS: p = Process(...); processes.append(p); p.start()
StartWorker ==
    /\ main_pc = "spawn"
    /\ started' = started + 1
    /\ wpc' = [wpc EXCEPT ![started + 1] = "construct"]
    /\ main_pc' = IF started + 1 = NumWorkers THEN "join" ELSE "spawn"
    /\ UNCHANGED <<joined, wout, wres, worker>>

\* for p in processes: p.join(), in the order the processes were started
JoinWorker ==
    /\ main_pc = "join"
    /\ joined < NumWorkers
    /\ JoinReady(joined + 1)
    /\ joined' = joined + 1
    /\ UNCHANGED <<main_pc, started, wpc, wout, wres, worker>>

\* print("--- ALL BROWSERSTACK SESSIONS COMPLETE ---")
Complete ==
    /\ main_pc = "join"
    /\ joined = NumWorkers
    /\ main_pc' = "complete"
    /\ UNCHANGED <<started, joined, wpc, wout, wres, worker>>

\* scraper = ElPaisScraperBrowserStack(caps): setup_driver may raise into the except
WorkerSetup(w) ==
    /\ wpc[w] = "construct"
    /\ \E ok \in BOOLEAN :
         IF ok
         THEN wpc' = [wpc EXCEPT ![w] = "scrape"] /\ UNCHANGED wout
         ELSE wpc' = [wpc EXCEPT ![w] = "terminated"] /\ wout' = [wout EXCEPT ![w] = "failed"]
    /\ UNCHANGED <<main_pc, started, joined, wres, worker>>

\* scraper.scrape_articles(): it returns with the articles scraped so far, or raises
\* (directory creation, driver.quit) into the except
WorkerScrape(w) ==
    /\ wpc[w] = "scrape"
    /\ \E n \in 0..TargetCount, ok \in BOOLEAN :
         /\ wres' = StoreResult(wres, w, ArticlesOf(w, n))
         /\ IF ok
            THEN wpc' = [wpc EXCEPT ![w] = "analyze"] /\ UNCHANGED wout
            ELSE wpc' = [wpc EXCEPT ![w] = "terminated"] /\ wout' = [wout EXCEPT ![w] = "failed"]
    /\ UNCHANGED <<main_pc, started, joined, worker>>

\* analyze_data(scraper.scraped_articles, session_name) and the closing print, or the except
WorkerAnalyze(w) ==
    /\ wpc[w] = "analyze"
    /\ \E ok \in BOOLEAN :
         /\ wpc' = [wpc EXCEPT ![w] = "terminated"]
         /\ wout' = [wout EXCEPT ![w] = IF ok THEN "ok" ELSE "failed"]
    /\ UNCHANGED <<main_pc, started, joined, wres, worker>>

WorkerStep(w) == WorkerSetup(w) \/ WorkerScrape(w) \/ WorkerAnalyze(w)

MainStep == StartWorker \/ JoinWorker \/ Complete

NextPar ==
    \/ StartWorker
    \/ JoinWorker
    \/ Complete
    \/ \E w \in Workers : WorkerSetup(w)
    \/ \E w \in Workers : WorkerScrape(w)
    \/ \E w \in Workers : WorkerAnalyze(w)

\* every started process keeps running (its waits are bounded), and so does the outer driver
SpecPar ==
    /\ Init
    /\ [][NextPar]_vars
    /\ WF_vars(MainStep)
    /\ \A w \in Workers : WF_vars(WorkerStep(w))

---------------------------------------------------------------------------
(* The claims.                                                             *)

Ended == pc \in {"finally", "analyze", "done"}

\* C1: once the worker holds a browser handle, every end of scrape_articles (return or
\* exception, the image-directory creation included) comes after exactly one
\* driver.quit(); the handle is never released twice nor left unreleased.
C1_ReleasedExactlyOnce ==
    /\ quits <= 1
    /\ (driver # "None" /\ scraping \in {"returned", "raised"}) => (quits = 1 /\ driver = "quit")

\* the position of the container a collected URL was read from
ContainerOf(url) == CHOOSE m \in 1..MaxElems : url = BASE_URL \o SECTION \o <<IdChar(m)>>

\* C2: when navigation to article k raises, the session ends with scraped_articles equal
\* to the articles of the first k-1 links, in link order, and no later link is attempted;
\* when no navigation raises, it ends with one article per link, in link order.
C2_PrefixOnNavFailure ==
    /\ nav_failed # 0 => (Ended /\ art_i = nav_failed)
    /\ Ended =>
         /\ scraped_articles =
              IF nav_failed # 0 THEN SubSeq(article_links, 1, nav_failed - 1) ELSE article_links
         /\ \A j, k \in 1..Len(scraped_articles) :
              j < k => ContainerOf(scraped_articles[j].url) < ContainerOf(scraped_articles[k].url)

C2_ThirdNavigationFails ==
    pc = "done" /\ nav_failed = 3 /\ Len(scraped_articles) = 2 /\ Len(article_links) = TargetCount

\* C3: at every moment article_links holds at most 5 entries and no two entries carry
\* the same normalized URL.
C3_AtMostFiveDistinct ==
    /\ Len(article_links) <= TargetCount
    /\ \A i, j \in 1..Len(article_links) :
         article_links[i].url = article_links[j].url => i = j

\* five links are held while a container is still left over
C3_CapReachedWithContainerLeft ==
    pc = "collect" /\ Len(article_links) = TargetCount /\ elem_i <= Len(article_elements)

\* C4: when selector k is the first whose lookup gives at least 5 elements, the containers
\* handed to link collection are exactly that lookup's result and no later selector is tried.
C4_FirstSufficientStrategy ==
    first_enough # 0 =>
        /\ pc # "resolve"
        /\ article_elements = Handles(first_enough, enough_len)
        /\ last_tried = first_enough

C4_ThirdStrategyChosen == pc = "collect" /\ first_enough = 3 /\ enough_len = MinCount

\* C5: when no body strategy gives a text longer than 50 characters, content_es is the
\* sentinel "CONTENT NOT SCRAPED": a text of at most 50 characters is never stored as body.
C5_ShortBodyIsSentinel ==
    \A j \in 1..Len(scraped_articles) :
        \/ scraped_articles[j].content_es = CONTENT_NOT_SCRAPED
        \/ Len(scraped_articles[j].content_es) > MinContentLen

IsAbsoluteUrl(h) ==
    \/ StartsWith(h, <<"h", "t", "t", "p", ":", "/", "/">>)
    \/ StartsWith(h, <<"h", "t", "t", "p", "s", ":", "/", "/">>)

IsRootRelative(h) == StartsWith(h, <<"/">>)

AbsoluteOf(h) == IF IsAbsoluteUrl(h) THEN h ELSE BASE_URL \o h

ShouldAdd(href, title, seen) ==
    /\ Truthy(href)
    /\ IsAbsoluteUrl(href) \/ IsRootRelative(href)
    /\ Truthy(title)
    /\ Len(title) > MinTitleLen
    /\ Contains(AbsoluteOf(href), SECTION)
    /\ AbsoluteOf(href) \notin seen

\* C6: an examined container is added to article_links exactly when its href is non-empty
\* and absolute or root-relative, its trimmed title is longer than 10 characters, the URL
\* made absolute against the base origin contains "/opinion/" and is not in the seen-set;
\* the entry added carries that absolute URL.
C6_AddedIffValid ==
    [][(pc = "collect" /\ elem_i' = elem_i + 1 /\ probe' # None) =>
        LET added == Len(article_links') = Len(article_links) + 1
        IN  /\ added <=> ShouldAdd(probe'[1], probe'[2], seen_urls)
            /\ added => article_links'[Len(article_links')].url = AbsoluteOf(probe'[1])]_vars

\* C7: every article of scraped_articles has its four fields set, each to a non-empty string.
C7_AllFieldsSet ==
    \A j \in 1..Len(scraped_articles) :
        /\ DOMAIN scraped_articles[j] = {"url", "title_es", "content_es", "image_path"}
        /\ \A f \in DOMAIN scraped_articles[j] : Truthy(scraped_articles[j][f])

C7_ArticleOfSentinels ==
    /\ Len(scraped_articles) >= 1
    /\ scraped_articles[1].content_es = CONTENT_NOT_SCRAPED
    /\ scraped_articles[1].image_path = NO_IMAGE_URL

\* C8: when no selector gives at least 5 elements, link collection receives the longest
\* result any selector gave.
C8_LongestWhenInsufficient ==
    (pc = "collect" /\ first_enough = 0) => Len(article_elements) = max_len

\* C9: when no image strategy accepted a URL as usable, nothing is downloaded for the
\* article and its image_path is the sentinel "No image URL found".
C9_NoDownloadWithoutUsableUrl ==
    (pc = "append" /\ ~img_accepted) =>
        /\ article_links[art_i].image_path = NO_IMAGE_URL
        /\ \A d \in 1..Len(downloads) : downloads[d][1] # art_i

PhaseRank ==
    CASE driver = "quit" -> 4
      [] driver # "quit" /\ pc \in {"construct", "makedirs"} -> 0
      [] driver # "quit" /\ pc \in {"home", "consent", "section"} -> 1
      [] driver # "quit" /\ pc \in {"resolve", "collect"} -> 2
      [] driver # "quit" /\ pc \in {"navigate", "title", "content", "image", "append", "finally"} -> 3
      [] driver # "quit" /\ pc \in {"analyze", "done"} -> IF scraping = "not_called" THEN 0 ELSE 3

\* C10: the session's phases only move forward (Idle, listing navigation, collecting,
\* the article loop, Closed), nothing follows Closed but the worker's own end, and a
\* session that started scraping does not end before it is Closed.
C10_ForwardToClosed ==
    [][/\ PhaseRank' >= PhaseRank
       /\ (driver = "quit" => pc' \in {"analyze", "done"})
       /\ (pc' = "done" /\ scraping' # "not_called") => driver' = "quit"]_vars

\* C11: the outer driver completes only after every worker process has ended, and it
\* always completes; a worker's failure stays in that worker: a worker's result sequence
\* is changed only by that worker's own scraping, and every worker ends, whatever the
\* others do.
C11_JoinAllThenComplete ==
    /\ [](main_pc = "complete" => \A w \in Workers : wpc[w] = "terminated")
    /\ <>(main_pc = "complete")
    /\ \A w \in Workers : <>(wpc[w] = "terminated")
    /\ [][\A w \in Workers : wres'[w] # wres[w] => wpc[w] = "scrape" /\ wpc'[w] # "scrape"]_vars
    /\ [][\A w \in Workers : wout'[w] # wout[w] => wpc[w] # "terminated" /\ wpc'[w] = "terminated"]_vars

\* the driver has completed although the first worker failed, and the last worker holds
\* its full result
C11_CompleteDespiteFailure ==
    /\ main_pc = "complete"
    /\ wout[1] = "failed"
    /\ wout[NumWorkers] = "ok"
    /\ Len(wres[NumWorkers]) = TargetCount

====
